---- MODULE Spec2Model ----
(***************************************************************************)
(* A model of ok-fp: the error-accumulating Validation applicative, and    *)
(* the lazy, re-runnable Task / TaskEither computations running on a       *)
(* promise machine (host promises settled by the environment, reactions    *)
(* run one job at a time).                                                 *)
(*                                                                         *)
(* Values are tagged records, told apart by their field names:             *)
(*   [num |-> n]                      a number                             *)
(*   [args |-> s, fn |-> name, n |-> k]  a (curried) function value        *)
(*   [arr |-> s]                      an array / tuple                     *)
(*   [valid |-> v], [invalid |-> es]  a Validation (ValidationV)           *)
(*   [right |-> v], [left |-> e]      an Either                            *)
(*   [thunk |-> th]                   a Task / TaskEither                  *)
(*   [undefined |-> TRUE]             undefined                            *)
(***************************************************************************)
EXTENDS Integers, Sequences, FiniteSets, TLC

\* The field names of the model's records.  Every record of the model lists
\* its fields in this (alphabetical) order.
FieldNames ==
    [adopt |-> 0, all |-> 0, args |-> 0, arr |-> 0, at |-> 0, c |-> 0, callable |-> 0,
     calls |-> 0, cb |-> 0, cs |-> 0, error |-> 0, errors |-> 0, f |-> 0,
     fn |-> 0, in |-> 0, inner |-> 0, invalid |-> 0, kind |-> 0, ks |-> 0,
     left |-> 0, log |-> 0, n |-> 0, num |-> 0, ok |-> 0, op |-> 0, other |-> 0, out |-> 0,
     p |-> 0, promises |-> 0, ps |-> 0, reason |-> 0, resolve |-> 0, resolveRight |-> 0,
     right |-> 0, run |-> 0, same |-> 0,
     srcs |-> 0, st |-> 0, state |-> 0, task |-> 0,
     then |-> 0, thunk |-> 0, undefined |-> 0, v |-> 0, valid |-> 0,
     value |-> 0, values |-> 0]

VARIABLES
    held,       \* Validation: the Validation the program currently holds
    vobs,       \* Validation: the last operation, its inputs, result and calls
    prog,       \* Task: the task the program built, with what it was built from
    promises,   \* Task: the host's promises, in creation order
    calls,      \* Task: the calls of user callables and functions, in order
    runs        \* Task: the promise run() returned, for every run() so far

vars == <<held, vobs, prog, promises, calls, runs>>
tvars == <<prog, promises, calls, runs>>

----------------------------------------------------------------------------
(* Bounds of the model *)

MaxNum == 1         \* the Validation program keeps its numbers in 0..MaxNum
MaxErrs == 3        \* longest error sequence the model builds
MaxItems == 2       \* longest input of traverse / sequence / all
MaxRuns == 2        \* most calls of run() on the task the program built
MaxPromises == 10   \* run() is not called again once it would leave more promises

Nums == 0 .. MaxNum
Errors == {"e1", "e2"}

----------------------------------------------------------------------------
(* Values and user functions *)

Num(n) == [num |-> n]
Arr(s) == [arr |-> s]
Fn(name, k, args) == [args |-> args, fn |-> name, n |-> k]
Undefined == [undefined |-> TRUE]

NoFn == Fn("none", 0, <<>>)

isNum(v) == DOMAIN v = {"num"}
isFn(v) == DOMAIN v = {"fn", "n", "args"}

\* The thunks a Task closes over, by the promise expression they evaluate:
\*   [callable |-> c]              the user's callable c:  () => c()
\*   [resolve |-> v]               () => Promise.resolve(v)
\*   [args |-> <<x>>, resolveRight |-> f]   () => Promise.resolve(right(f(x)))
\*   [cb |-> cb, then |-> th]      () => th().then(cb)
\*   [all |-> ths]                 () => Promise.all(ths.map(th => th()))
\*   [all |-> ths, cb |-> cb]      () => Promise.all(...).then(cb)
\* A callback cb is [fn |-> the user function(s) it closes over, kind |-> k].
UserThunk(c) == [callable |-> c]
ResolveThunk(value) == [resolve |-> value]
ResolveRightThunk(mapper, rightVal) == [args |-> <<rightVal>>, resolveRight |-> mapper]
ThenThunk(thunk, cb) == [cb |-> cb, then |-> thunk]
AllThunk(thunks) == [all |-> thunks]
AllThenThunk(thunks, cb) == [all |-> thunks, cb |-> cb]
Cb(kind, fn) == [fn |-> fn, kind |-> kind]
NoCb == Cb("none", NoFn)

\* The Task object is modelled by the thunk it closes over: run() is thunk().
createTask(thunk) == [thunk |-> thunk]
createTaskEither(thunk) == [thunk |-> thunk]

\* The functions of the library that are values: flatten's (value) => value,
\* zip's (value) => (a) => [value, a] and TaskEither.map's
\* (rightVal) => createTaskEither(() => Promise.resolve(right(mapper(rightVal)))).
\* task and taskEither are the library's constructors passed as mappers.
LibraryFns == {"id", "pair", "rightOf", "task", "taskEither"}

\* The user functions below that return tasks use the library, defined
\* further down.
RECURSIVE Call(_, _)
RECURSIVE Apply(_, _)
RECURSIVE task(_)
RECURSIVE taskEither(_)
RECURSIVE taskLeft(_)
RECURSIVE Task_flatMap(_, _)
RECURSIVE TaskEither_flatMap(_, _)

\* The user functions the model passes to the library, by name, and the
\* library's function values.
Call(name, args) ==
    CASE name = "id" -> args[1]
      [] name = "inc" -> Num(args[1].num + 1)
      [] name = "dbl" -> Num(args[1].num * 2)
      [] name = "add2" -> Num(args[1].num + args[2].num)
      [] name = "add3" -> Num(args[1].num + args[2].num + args[3].num)
      [] name = "effect" -> Undefined
      [] name = "const" -> args[1]
      [] name = "zero" -> Num(0)
      [] name = "wrap" -> Arr(<<args[1]>>)
      [] name = "taskB" -> createTask(UserThunk("B"))
      [] name = "taskFor" ->
            createTask(UserThunk(<<"A", "B", "C">>[args[1].num]))
      [] name = "teRB" -> createTaskEither(UserThunk("RB"))
      [] name = "teLB" -> createTaskEither(UserThunk("LB"))
      [] name = "task" -> task(args[1])
      [] name = "taskEither" -> taskEither(args[1])
      [] name = "taskInc" -> task(Num(args[1].num + 1))
      [] name = "taskDbl" -> task(Num(args[1].num * 2))
      [] name = "taskJ" -> createTask(UserThunk("J"))
      [] name = "teInc" -> taskEither(Num(args[1].num + 1))
      [] name = "teDbl" -> taskEither(Num(args[1].num * 2))
      [] name = "teFail" -> taskLeft("e2")
      [] name = "teRJ" -> createTaskEither(UserThunk("RJ"))
      \* x => g(f(x)), for f = args[1] and g = args[2]
      [] name = "compose" -> Apply(args[2], Apply(args[1], args[3]).v).v
      \* x => f(x).flatMap(g), for f = args[1] and g = args[2]
      [] name = "bind" -> Task_flatMap(Apply(args[1], args[3]).v, args[2])
      [] name = "teBind" ->
            TaskEither_flatMap(Apply(args[1], args[3]).v, args[2])
      [] name = "pair" -> Arr(<<args[1], args[2]>>)
      [] name = "rightOf" ->
            createTaskEither(ResolveRightThunk(args[1], args[2]))

CallEvent(name, args) == [args |-> args, f |-> name]

\* fn(x) for a function value: a curried function collects its arguments and
\* calls the function `name` once the last one arrives; the log has the calls
\* of user functions.
Apply(fnv, x) ==
    IF Len(fnv.args) + 1 < fnv.n
    THEN [log |-> <<>>, v |-> Fn(fnv.fn, fnv.n, Append(fnv.args, x))]
    ELSE [log |-> IF fnv.fn \in LibraryFns THEN <<>>
                  ELSE <<CallEvent(fnv.fn, Append(fnv.args, x))>>,
          v |-> Call(fnv.fn, Append(fnv.args, x))]

\* fn(x1, ..., xk) for a function value called with all of xs at once: the
\* function `name` sees them after the arguments it closes over, and takes
\* the ones it has parameters for.
ApplyAll(fnv, xs) ==
    [log |-> IF fnv.fn \in LibraryFns THEN <<>>
             ELSE <<CallEvent(fnv.fn, fnv.args \o xs)>>,
     v |-> Call(fnv.fn, fnv.args \o xs)]

----------------------------------------------------------------------------
(* Validation (validation.ts, constructors.ts, helpers.ts).  Every operation *)
(* returns [log |-> the user functions it called, in order, v |-> its result]. *)

Pure(v) == [log |-> <<>>, v |-> v]

\* return validation: the result is the receiver itself, the same object,
\* where every other result is an object createValidation made anew.
ReturnThis(made, validation) == [log |-> made, same |-> TRUE, v |-> validation]

isValid(value) == "valid" \in DOMAIN value

forceCast(v) == v

\* The Validation object is modelled by the ValidationV it closes over.
createValidation(value) == value

\* match(onInvalid, onValid): the two arguments are the callbacks' results,
\* onInvalid written over value.invalid and onValid over value.valid; only the
\* one of the value's tag is evaluated.
Validation_match(value, onInvalid, onValid) ==
    IF isValid(value) THEN onValid ELSE onInvalid

\* map giving, for an invalid receiver, a new Validation of the same errors.
Validation_map_rebuilt(validation, mapper) ==
    Validation_match(validation,
        Pure(createValidation([invalid |-> validation.invalid])),
        LET r == Apply(mapper, validation.valid)
        IN [log |-> r.log, v |-> createValidation([valid |-> r.v])])

Validation_map(validation, mapper) ==
    Validation_match(validation,
        ReturnThis(<<>>, forceCast(validation)),
        LET r == Apply(mapper, validation.valid)
        IN [log |-> r.log, v |-> createValidation([valid |-> r.v])])

\* Validation_ap as Either.ap would do it: the receiver's errors win.
Validation_ap_firstWins(this, arg) ==
    Validation_match(this,
        Pure(createValidation([invalid |-> this.invalid])),
        Validation_map(arg, this.valid))

\* Validation_ap that does not look at the argument's tag when the receiver is valid.
Validation_ap_ignoreArg(this, arg) ==
    Validation_match(this,
        Validation_match(arg,
            Pure(createValidation([invalid |-> this.invalid \o arg.invalid])),
            Pure(createValidation([invalid |-> this.invalid]))),
        Validation_match(arg,
            Pure(createValidation([valid |-> this.valid])),
            LET r == Apply(this.valid, arg.valid)
            IN [log |-> r.log, v |-> createValidation([valid |-> r.v])]))

Validation_ap(this, arg) ==
    Validation_match(this,
        Validation_match(arg,
            Pure(createValidation([invalid |-> this.invalid \o arg.invalid])),
            Pure(createValidation([invalid |-> this.invalid]))),
        Validation_match(arg,
            Pure(createValidation([invalid |-> arg.invalid])),
            LET r == Apply(this.valid, arg.valid)
            IN [log |-> r.log, v |-> createValidation([valid |-> r.v])]))

Validation_getOrElse(validation, fallback) ==
    Validation_match(validation,
        Apply(fallback, Arr(validation.invalid)),
        Pure(validation.valid))

Validation_tap(validation, sideEffect) ==
    ReturnThis(Validation_match(validation,
                   <<>>,
                   Apply(sideEffect, validation.valid).log),
               validation)

valid(value) == createValidation([valid |-> value])

invalid(error) == createValidation([invalid |-> <<error>>])

\* Either (its module is not among the files modelled): one of {right: T} or
\* {left: E}; match as Validation's.
right(value) == [right |-> value]
left(error) == [left |-> error]
isRight(either) == "right" \in DOMAIN either
Either_match(either, onLeft, onRight) ==
    IF isRight(either) THEN onRight ELSE onLeft

\* fromEither putting the error of a left twice in the error sequence.
fromEither_twice(either) ==
    Either_match(either,
        createValidation([invalid |-> <<either.left, either.left>>]),
        valid(either.right))

fromEither(either) ==
    Either_match(either, invalid(either.left), valid(either.right))

\* map2 written with a monadic bind: valB is not inspected when valA is invalid.
map2_shortCircuit(valA, valB, mapper) ==
    Validation_match(valA,
        Pure(forceCast(valA)),
        Validation_map(valB, Fn(mapper, 2, <<valA.valid>>)))

\* valA.map((a) => (b) => mapper(a, b)).ap(valB)
map2(valA, valB, mapper) ==
    LET m == Validation_map(valA, Fn(mapper, 2, <<>>))
        r == Validation_ap(m.v, valB)
    IN [log |-> m.log \o r.log, v |-> r.v]

\* valA.map((a) => (b) => (c) => mapper(a, b, c)).ap(valB).ap(valC)
map3(valA, valB, valC, mapper) ==
    LET m == Validation_map(valA, Fn(mapper, 3, <<>>))
        r == Validation_ap(m.v, valB)
        q == Validation_ap(r.v, valC)
    IN [log |-> m.log \o r.log \o q.log, v |-> q.v]

\* The functions item -> Validation the model passes to traverse, by name.
\* "positive" is x => x > 0 ? valid(x) : invalid("e1"); "reject" accepts no
\* item and names the item in its error.
ApplyV(f, a) ==
    [log |-> <<CallEvent(f, <<a>>)>>,
     v |-> CASE f = "identity" -> a
             [] f = "positive" -> IF a.num > 0 THEN valid(a) ELSE invalid("e1")
             [] f = "reject" -> invalid(IF a.num = 0 THEN "e1" ELSE "e2")]

\* The loop of traverse leaving at the first invalid item.
RECURSIVE traverseLoop_stopAtFirst(_, _, _, _)
traverseLoop_stopAtFirst(as, f, i, acc) ==
    IF i > Len(as) \/ Len(acc.errors) > 0 THEN acc
    ELSE LET r == ApplyV(f, as[i])
         IN traverseLoop_stopAtFirst(as, f, i + 1,
                Validation_match(r.v,
                    [errors |-> acc.errors \o r.v.invalid,
                     log |-> acc.log \o r.log,
                     values |-> acc.values],
                    [errors |-> acc.errors,
                     log |-> acc.log \o r.log,
                     values |-> Append(acc.values, r.v.valid)]))

\* The loop of traverse: acc is [errors, log, values] after the first i - 1 items.
RECURSIVE traverseLoop(_, _, _, _)
traverseLoop(as, f, i, acc) ==
    IF i > Len(as) THEN acc
    ELSE LET r == ApplyV(f, as[i])
         IN traverseLoop(as, f, i + 1,
                Validation_match(r.v,
                    [errors |-> acc.errors \o r.v.invalid,
                     log |-> acc.log \o r.log,
                     values |-> acc.values],
                    [errors |-> acc.errors,
                     log |-> acc.log \o r.log,
                     values |-> Append(acc.values, r.v.valid)]))

\* traverse deciding by the values it collected instead of by the errors.
Validation_traverse_byValues(as, f) ==
    LET done == traverseLoop(as, f, 1,
                    [errors |-> <<>>, log |-> <<>>, values |-> <<>>])
    IN [log |-> done.log,
        v |-> IF Len(done.values) > 0
              THEN createValidation([valid |-> Arr(done.values)])
              ELSE createValidation([invalid |-> done.errors])]

Validation_traverse(as, f) ==
    LET done == traverseLoop(as, f, 1,
                    [errors |-> <<>>, log |-> <<>>, values |-> <<>>])
    IN [log |-> done.log,
        v |-> IF Len(done.errors) > 0
              THEN createValidation([invalid |-> done.errors])
              ELSE createValidation([valid |-> Arr(done.values)])]

\* sequence deciding by the values it collected instead of by the errors.
Validation_sequence_byValues(validations) ==
    Validation_traverse_byValues(validations, "identity")

Validation_sequence(validations) == Validation_traverse(validations, "identity")

----------------------------------------------------------------------------
(* Either (its module is not among the files modelled), as the spec states  *)
(* it: ap is first-error-wins, tap and getOrElse as Validation's.  Every     *)
(* operation returns [log, v] as Validation's do.                            *)

Either_ap(this, arg) ==
    Either_match(this,
        Pure(left(this.left)),
        Either_match(arg,
            Pure(left(arg.left)),
            LET r == Apply(this.right, arg.right)
            IN [log |-> r.log, v |-> right(r.v)]))

Either_tap(either, sideEffect) ==
    [log |-> Either_match(either, <<>>, Apply(sideEffect, either.right).log),
     v |-> either]

Either_getOrElse(either, fallback) ==
    Either_match(either, Apply(fallback, either.left), Pure(either.right))

toResult(either) ==
    Either_match(either,
        [error |-> either.left, ok |-> FALSE],
        [ok |-> TRUE, value |-> either.right])

----------------------------------------------------------------------------
(* The host's promises.  A run works on st = [calls, promises, run]: the     *)
(* log of calls, the table of promises, and the number of the run() at work  *)
(* (kept in every promise the run creates).  A promise is                    *)
(*   kind "callable": returned by the n-th call of the user's callable c,    *)
(*        settled by the environment: fulfilled with a value, or rejected    *)
(*        with a reason (kept in value);                                     *)
(*   kind "resolved": Promise.resolve(value);                                *)
(*   kind "then":     srcs[1].then(cb); inner is the promise cb returned,    *)
(*        which it adopts, or 0;                                             *)
(*   kind "all":      Promise.all(srcs).                                     *)
(* at is the rank of a callable's promise among those of its run, in the    *)
(* order the environment settled them (0 while pending).                     *)

PromiseRec(kind, c, n, cb, srcs, state, value, run) ==
    [at |-> 0, c |-> c, cb |-> cb, inner |-> 0, kind |-> kind, n |-> n,
     run |-> run,
     srcs |-> srcs, state |-> state, value |-> value]

NewPromise(st, promise) ==
    [p |-> Len(st.promises) + 1,
     st |-> [st EXCEPT !.promises = Append(@, promise)]]

\* Promise.resolve(value)
PromiseResolve(st, value) ==
    NewPromise(st,
        PromiseRec("resolved", "", 0, NoCb, <<>>, "fulfilled", value, st.run))

Logged(st, log) == [st EXCEPT !.calls = @ \o log]

CountCalls(log, c) == Cardinality({i \in 1 .. Len(log) : log[i].f = c})

RECURSIVE Invoke(_, _)
RECURSIVE InvokeAll(_, _, _, _)

\* thunks.map(th => th()): the thunks are called in order, each returning its
\* promise, before anything is awaited.
InvokeAll(st, thunks, i, ps) ==
    IF i > Len(thunks) THEN [ps |-> ps, st |-> st]
    ELSE LET r == Invoke(st, thunks[i])
         IN InvokeAll(r.st, thunks, i + 1, Append(ps, r.p))

\* thunk(): evaluates the thunk's promise expression; gives the promise it
\* returns, p, and the state after it.
Invoke(st, thunk) ==
    IF "callable" \in DOMAIN thunk THEN
        NewPromise(Logged(st, <<CallEvent(thunk.callable, <<>>)>>),
            PromiseRec("callable", thunk.callable,
                CountCalls(st.calls, thunk.callable) + 1,
                NoCb, <<>>, "pending", Undefined, st.run))
    ELSE IF "resolve" \in DOMAIN thunk THEN
        PromiseResolve(st, thunk.resolve)
    ELSE IF "resolveRight" \in DOMAIN thunk THEN
        LET r == Apply(thunk.resolveRight, thunk.args[1])
        IN PromiseResolve(Logged(st, r.log), right(r.v))
    ELSE IF "then" \in DOMAIN thunk THEN
        LET r == Invoke(st, thunk.then)
        IN NewPromise(r.st,
               PromiseRec("then", "", 0, thunk.cb, <<r.p>>, "pending",
                   Undefined, st.run))
    ELSE
        LET r == InvokeAll(st, thunk.all, 1, <<>>)
            a == NewPromise(r.st,
                    PromiseRec("all", "", 0, NoCb, r.ps,
                        IF r.ps = <<>> THEN "fulfilled" ELSE "pending",
                        IF r.ps = <<>> THEN Arr(<<>>) ELSE Undefined,
                        st.run))
        IN IF "cb" \in DOMAIN thunk
           THEN NewPromise(a.st,
                    PromiseRec("then", "", 0, thunk.cb, <<a.p>>, "pending",
                        Undefined, st.run))
           ELSE a

----------------------------------------------------------------------------
(* Task (task.ts, its constructors and helpers) *)

\* map applying the mapper twice.
Task_map_twice(t, mapper) ==
    createTask(ThenThunk(ThenThunk(t.thunk, Cb("map", mapper)),
                         Cb("map", mapper)))

Task_map(t, mapper) == createTask(ThenThunk(t.thunk, Cb("map", mapper)))

\* this.flatMap(() => arg): the argument runs once the receiver has resolved.
Task_ap_sequential(this, arg) ==
    createTask(ThenThunk(this.thunk, Cb("flatMap", Fn("const", 2, <<arg>>))))

Task_ap(this, arg) ==
    createTask(AllThenThunk(<<this.thunk, arg.thunk>>, Cb("apply", NoFn)))

Task_zip(t, taskA) == Task_ap(Task_map(t, Fn("pair", 2, <<>>)), taskA)

\* flatMap that calls a mapper which ignores its argument when the task is
\* built, and runs both tasks at once.
Task_flatMap_concurrent(t, mapper) ==
    IF mapper.fn = "taskB"
    THEN createTask(AllThunk(<<t.thunk, Call(mapper.fn, <<Undefined>>).thunk>>))
    ELSE createTask(ThenThunk(t.thunk, Cb("flatMap", mapper)))

\* flatMap that runs the mapper but resolves to the value of t, as tap does.
Task_flatMap_tapped(t, mapper) ==
    createTask(ThenThunk(t.thunk, Cb("tap", mapper)))

Task_flatMap(t, mapper) == createTask(ThenThunk(t.thunk, Cb("flatMap", mapper)))

Task_flatten(this) == Task_flatMap(this, Fn("id", 1, <<>>))

Task_tap(t, sideEffect) == createTask(ThenThunk(t.thunk, Cb("tap", sideEffect)))

\* run() that keeps the promise of the first run.
Task_run_memoized(st, t) ==
    IF st.promises = <<>> THEN Invoke(st, t.thunk)
    ELSE [p |-> Len(st.promises), st |-> st]

Task_run(st, t) == Invoke(st, t.thunk)

task(value) == createTask(ResolveThunk(value))

fromPromise(thunk) == createTask(thunk)

\* all running its tasks one after the other.
RECURSIVE Task_all_sequential(_)
Task_all_sequential(tasks) ==
    IF tasks = <<>> THEN task(Arr(<<>>))
    ELSE IF Len(tasks) = 1 THEN tasks[1]
    ELSE Task_flatMap(tasks[1],
             Fn("const", 2, <<Task_all_sequential(Tail(tasks))>>))

Task_all(tasks) ==
    createTask(AllThunk([i \in 1 .. Len(tasks) |-> tasks[i].thunk]))

\* items.map(mapper): Array.prototype.map calls mapper(item, index, items) on
\* every item, in order, with the indices from 0; acc is [log, v] with the
\* calls made and the tasks returned so far.
RECURSIVE mapItems(_, _, _, _)
mapItems(items, mapper, i, acc) ==
    IF i > Len(items) THEN acc
    ELSE LET r == ApplyAll(mapper, <<items[i], Num(i - 1), Arr(items)>>)
         IN mapItems(items, mapper, i + 1,
                [log |-> acc.log \o r.log, v |-> Append(acc.v, r.v)])

\* traverse that calls mapper on the items in every run, not when it is
\* called: all(items.map(x => task(x).flatMap(mapper))).
Task_traverse_lazy(items, mapper) ==
    [log |-> <<>>,
     v |-> Task_all([i \in 1 .. Len(items) |->
                        Task_flatMap(task(items[i]), mapper)])]

\* traverse gives [log, v]: the calls of mapper it made, and the task.
Task_traverse(items, mapper) ==
    LET mapped == mapItems(items, mapper, 1, Pure(<<>>))
    IN [log |-> mapped.log, v |-> Task_all(mapped.v)]

Task_sequence(tasks) == Task_all(tasks)

\* The callbacks Task passes to then, run with the value x of the promise
\* they wait for.  A callback gives [adopt, st, value]: the promise it returned
\* (or 0), the state after it, and the value it returned (when adopt is 0).
Returned(st, value) == [adopt |-> 0, st |-> st, value |-> value]
ReturnedPromise(r) == [adopt |-> r.p, st |-> r.st, value |-> Undefined]

Task_callback(st, cb, x) ==
    CASE cb.kind = "map" ->
            LET r == Apply(cb.fn, x) IN Returned(Logged(st, r.log), r.v)
      [] cb.kind = "apply" ->
            LET r == Apply(x.arr[1], x.arr[2])
            IN Returned(Logged(st, r.log), r.v)
      [] cb.kind = "flatMap" ->
            LET r == Apply(cb.fn, x)
            IN ReturnedPromise(Task_run(Logged(st, r.log), r.v))
      [] cb.kind = "tap" ->
            LET r == Apply(cb.fn, x) IN Returned(Logged(st, r.log), x)

----------------------------------------------------------------------------
(* TaskEither (taskEither.ts, helpers.ts; its constructors are not among the *)
(* files modelled and are as the spec states them)                           *)

TaskEither_run(st, te) == Invoke(st, te.thunk)

\* flatMap that runs the TaskEither of a mapper which ignores its argument
\* whatever te resolved to.
TaskEither_flatMap_always(te, mapper) ==
    IF mapper.fn = "teRB"
    THEN createTaskEither(ThenThunk(te.thunk, Cb("flatMap", mapper)))
    ELSE createTaskEither(ThenThunk(te.thunk, Cb("teFlatMap", mapper)))

TaskEither_flatMap(te, mapper) ==
    createTaskEither(ThenThunk(te.thunk, Cb("teFlatMap", mapper)))

TaskEither_map(te, mapper) ==
    TaskEither_flatMap(te, Fn("rightOf", 2, <<mapper>>))

TaskEither_mapLeft(te, mapper) ==
    createTaskEither(ThenThunk(te.thunk, Cb("mapLeft", mapper)))

\* ap written with a bind: the argument runs only once the receiver has
\* resolved to right.
TaskEither_ap_sequential(this, arg) ==
    createTaskEither(
        ThenThunk(this.thunk, Cb("teFlatMap", Fn("const", 2, <<arg>>))))

TaskEither_ap(this, arg) ==
    createTaskEither(
        AllThenThunk(<<this.thunk, arg.thunk>>, Cb("eitherAp", NoFn)))

TaskEither_zip(te, other) ==
    TaskEither_ap(TaskEither_map(te, Fn("pair", 2, <<>>)), other)

TaskEither_flatten(this) == TaskEither_flatMap(this, Fn("id", 1, <<>>))

TaskEither_tap(te, sideEffect) ==
    createTaskEither(ThenThunk(te.thunk, Cb("teTap", sideEffect)))

\* tapLeft that runs the side effect on the right branch, as tap does.
TaskEither_tapLeft_onRight(te, sideEffect) ==
    createTaskEither(ThenThunk(te.thunk, Cb("teTap", sideEffect)))

TaskEither_tapLeft(te, sideEffect) ==
    createTaskEither(ThenThunk(te.thunk, Cb("tapLeft", sideEffect)))

TaskEither_match(te, onLeft, onRight) ==
    createTask(ThenThunk(te.thunk, Cb("match", Arr(<<onLeft, onRight>>))))

TaskEither_getOrElse(te, fallback) ==
    createTask(ThenThunk(te.thunk, Cb("getOrElse", fallback)))

\* orElse that runs the TaskEither of the fallback whatever te resolved to.
TaskEither_orElse_always(te, fallback) ==
    createTaskEither(ThenThunk(te.thunk, Cb("flatMap", fallback)))

TaskEither_orElse(te, fallback) ==
    createTaskEither(ThenThunk(te.thunk, Cb("orElse", fallback)))

taskEither(value) == createTaskEither(ResolveThunk(right(value)))

taskLeft(error) == createTaskEither(ResolveThunk(left(error)))

\* The loop of all returning the last left of the list instead of the first.
RECURSIVE TaskEither_all_loop_lastLeft(_, _, _)
TaskEither_all_loop_lastLeft(eithers, i, out) ==
    IF i > Len(eithers) THEN right(Arr(out))
    ELSE LET result == toResult(eithers[i])
             rest == TaskEither_all_loop_lastLeft(eithers, i + 1, out)
         IN IF result.ok
            THEN TaskEither_all_loop_lastLeft(eithers, i + 1,
                     Append(out, result.value))
            ELSE IF isRight(rest) THEN left(result.error) ELSE rest

\* The loop of all over the resolved eithers: the first left in input order,
\* or right of all the values.
RECURSIVE TaskEither_all_loop(_, _, _)
TaskEither_all_loop(eithers, i, out) ==
    IF i > Len(eithers) THEN right(Arr(out))
    ELSE LET result == toResult(eithers[i])
         IN IF ~result.ok THEN left(result.error)
            ELSE TaskEither_all_loop(eithers, i + 1, Append(out, result.value))

TaskEither_all(taskEithers) ==
    createTaskEither(
        AllThenThunk([i \in 1 .. Len(taskEithers) |-> taskEithers[i].thunk],
                     Cb("collect", NoFn)))

\* The callback of ap looking at the argument's Either first: its left wins.
TaskEither_ap_then_argFirst(st, x) ==
    IF ~isRight(x.arr[2]) THEN Returned(st, left(x.arr[2].left))
    ELSE LET r == Either_ap(x.arr[1], x.arr[2])
         IN Returned(Logged(st, r.log), r.v)

\* The callback of ap: ([eitherFn, eitherA]) => eitherFn.ap(eitherA).
TaskEither_ap_then(st, x) ==
    LET r == Either_ap(x.arr[1], x.arr[2])
    IN Returned(Logged(st, r.log), r.v)

\* The callbacks TaskEither passes to then; x is the Either (for ap and all,
\* the array of Eithers) of the promise they wait for.
TaskEither_callback(st, cb, x) ==
    CASE cb.kind = "teFlatMap" ->
            Either_match(x,
                ReturnedPromise(PromiseResolve(st, left(x.left))),
                LET r == Apply(cb.fn, x.right)
                IN ReturnedPromise(TaskEither_run(Logged(st, r.log), r.v)))
      [] cb.kind = "mapLeft" ->
            Either_match(x,
                LET r == Apply(cb.fn, x.left)
                IN Returned(Logged(st, r.log), left(r.v)),
                Returned(st, right(x.right)))
      [] cb.kind = "eitherAp" -> TaskEither_ap_then(st, x)
      [] cb.kind = "teTap" ->
            LET r == Either_tap(x, cb.fn) IN Returned(Logged(st, r.log), x)
      [] cb.kind = "tapLeft" ->
            Either_match(x,
                Returned(Logged(st, Apply(cb.fn, x.left).log), x),
                Returned(st, x))
      [] cb.kind = "match" ->
            LET r == Either_match(x, Apply(cb.fn.arr[1], x.left),
                                     Apply(cb.fn.arr[2], x.right))
            IN Returned(Logged(st, r.log), r.v)
      [] cb.kind = "getOrElse" ->
            LET r == Either_getOrElse(x, cb.fn)
            IN Returned(Logged(st, r.log), r.v)
      [] cb.kind = "orElse" ->
            Either_match(x,
                LET r == Apply(cb.fn, x.left)
                IN ReturnedPromise(TaskEither_run(Logged(st, r.log), r.v)),
                ReturnedPromise(PromiseResolve(st, x)))
      [] cb.kind = "collect" ->
            Returned(st, TaskEither_all_loop(x.arr, 1, <<>>))

TaskCallbacks == {"map", "apply", "flatMap", "tap"}

----------------------------------------------------------------------------
(* The Validation program: it holds one Validation, held, and replaces it by  *)
(* the result of a constructor, or of an operation whose operands are held    *)
(* and Validations fresh from the constructors.                              *)

SeqsUpTo(S, n) == UNION {[1 .. k -> S] : k \in 0 .. n}

\* What the constructors give.
FreshV ==
    {valid(Num(n)) : n \in Nums} \cup {invalid(e) : e \in Errors}
        \cup {valid(Fn("dbl", 1, <<>>))}

Operands == {held} \cup FreshV

\* The static types: what a valid payload must be for the operation to compile.
NumTyped(v) == isValid(v) => isNum(v.valid)
FnTyped(v) == isValid(v) => (isFn(v.valid) /\ Len(v.valid.args) + 1 = v.valid.n)

ErrLen(v) == IF isValid(v) THEN 0 ELSE Len(v.invalid)

\* The numbers the program keeps stay within the model's bound.
NumBounded(v) == (isValid(v) /\ isNum(v.valid)) => v.valid.num <= MaxNum

Observe(op, in, f, r) ==
    /\ ErrLen(r.v) <= MaxErrs
    /\ NumBounded(r.v)
    /\ held' = r.v
    /\ vobs' = [f |-> f, in |-> in, log |-> r.log, op |-> op, out |-> r.v,
                same |-> "same" \in DOMAIN r]
    /\ UNCHANGED tvars

VConstruct ==
    \E v \in FreshV : Observe("construct", <<>>, NoFn, Pure(v))

VFromEither ==
    \E e \in {right(Num(n)) : n \in Nums} \cup {left(x) : x \in Errors} :
        Observe("fromEither", <<e>>, NoFn, Pure(fromEither(e)))

VMap ==
    \E v \in Operands,
       f \in {Fn("inc", 1, <<>>), Fn("dbl", 1, <<>>), Fn("add2", 2, <<>>)} :
        /\ NumTyped(v)
        /\ Observe("map", <<v>>, f, Validation_map(v, f))

VAp ==
    \E fv \in Operands, av \in Operands :
        /\ FnTyped(fv)
        /\ NumTyped(av)
        /\ Observe("ap", <<fv, av>>, NoFn, Validation_ap(fv, av))

VTap ==
    \E v \in Operands :
        Observe("tap", <<v>>, Fn("effect", 1, <<>>),
                Validation_tap(v, Fn("effect", 1, <<>>)))

VMap2 ==
    \E a \in Operands, b \in Operands :
        /\ NumTyped(a)
        /\ NumTyped(b)
        /\ Observe("map2", <<a, b>>, Fn("add2", 2, <<>>), map2(a, b, "add2"))

VMap3 ==
    \E a \in Operands, b \in Operands, c \in Operands :
        /\ NumTyped(a)
        /\ NumTyped(b)
        /\ NumTyped(c)
        /\ Observe("map3", <<a, b, c>>, Fn("add3", 3, <<>>),
                   map3(a, b, c, "add3"))

VTraverse ==
    \E as \in SeqsUpTo({Num(n) : n \in Nums}, MaxItems),
       f \in {"positive", "reject"} :
        Observe("traverse", as, Fn(f, 1, <<>>), Validation_traverse(as, f))

VSequence ==
    \E vs \in SeqsUpTo({v \in Operands : NumTyped(v)}, MaxItems) :
        Observe("sequence", vs, NoFn, Validation_sequence(vs))

\* The mappers f, g the functor laws are checked for.
MapFns == {Fn("inc", 1, <<>>), Fn("dbl", 1, <<>>)}

\* The program computes both sides of a functor law for a Validation and
\* keeps them (out and other); held is left as it is.
LawObserved(op, v, f, lhs, rhs) ==
    /\ vobs' = [f |-> f, in |-> <<v>>, log |-> lhs.log, op |-> op,
                other |-> rhs.v, out |-> lhs.v, same |-> "same" \in DOMAIN lhs]
    /\ UNCHANGED held
    /\ UNCHANGED tvars

\* x.map(id) and x
VMapIdentity ==
    \E v \in Operands :
        LawObserved("mapIdentity", v, Fn("id", 1, <<>>),
                    Validation_map(v, Fn("id", 1, <<>>)), Pure(v))

\* x.map(f).map(g) and x.map(v => g(f(v)))
VMapComposition ==
    \E v \in Operands, f \in MapFns, g \in MapFns :
        /\ NumTyped(v)
        /\ LET m == Validation_map(v, f)
               lhs == Validation_map(m.v, g)
           IN LawObserved("mapComposition", v, Fn("compose", 3, <<f, g>>),
                  \* v.map(f).map(g) is v itself when both maps returned
                  \* their receiver
                  IF "same" \in DOMAIN m /\ "same" \in DOMAIN lhs
                  THEN ReturnThis(m.log \o lhs.log, lhs.v)
                  ELSE [log |-> m.log \o lhs.log, v |-> lhs.v],
                  Validation_map(v, Fn("compose", 3, <<f, g>>)))

VNext ==
    \/ VMapIdentity
    \/ VMapComposition
    \/ VConstruct
    \/ VFromEither
    \/ VMap
    \/ VAp
    \/ VTap
    \/ VMap2
    \/ VMap3
    \/ VTraverse
    \/ VSequence

----------------------------------------------------------------------------
(* The Task program: it builds one task from user callables with the        *)
(* constructors and combinators, and calls run() on it up to MaxRuns times;  *)
(* the environment fulfils or rejects the promises the callables returned,   *)
(* and the host runs the reactions of settled promises, one at a time, in    *)
(* any order.                                                                *)

\* What the promise returned by the n-th call of callable c resolves with.
Outcome(c, n) ==
    CASE c = "A" -> Num(n)
      [] c = "B" -> Num(10 + n)
      [] c = "C" -> Num(20 + n)
      [] c = "F" -> Fn("add2", 2, <<Num(n)>>)
      [] c = "T" -> createTask(UserThunk("B"))
      [] c = "RA" -> right(Num(n))
      [] c = "RB" -> right(Num(10 + n))
      [] c = "LA" -> left("e1")
      [] c = "LB" -> left("e2")
      [] c = "RF" -> right(Fn("add2", 2, <<Num(n)>>))
      [] c = "RT" -> right(createTaskEither(UserThunk("RB")))
      \* callables that resolve to the same value at every call
      [] c = "K" -> Num(2)
      [] c = "J" -> Num(7)
      [] c = "RK" -> right(Num(2))
      [] c = "RJ" -> right(Num(7))

\* A program: the task it builds, the operation that built it (op), the
\* callables of its operands (cs) and those of the tasks its mapper gives (ks).
Scenario(op, cs, ks, built) == [cs |-> cs, ks |-> ks, op |-> op, task |-> built]

\* The lists of at most n of the elements of the list all, in its order.
Sublists(all, n) ==
    {SelectSeq(all, LAMBDA x : x \in S) :
        S \in {T \in SUBSET {all[i] : i \in 1 .. Len(all)} : Cardinality(T) <= n}}

TaskOf(c) == fromPromise(UserThunk(c))
TaskEitherOf(c) == createTaskEither(UserThunk(c))

TaskScenarios ==
    {Scenario("fromPromise", <<"A">>, <<>>, TaskOf("A")),
     Scenario("task", <<>>, <<>>, task(Num(0))),
     Scenario("map", <<"A">>, <<>>, Task_map(TaskOf("A"), Fn("inc", 1, <<>>))),
     Scenario("tap", <<"A">>, <<>>,
              Task_tap(TaskOf("A"), Fn("effect", 1, <<>>))),
     Scenario("flatMap", <<"A">>, <<"B">>,
              Task_flatMap(TaskOf("A"), Fn("taskB", 1, <<>>))),
     Scenario("flatten", <<"T">>, <<"B">>, Task_flatten(TaskOf("T"))),
     Scenario("ap", <<"F", "A">>, <<>>, Task_ap(TaskOf("F"), TaskOf("A"))),
     Scenario("zip", <<"A", "B">>, <<>>, Task_zip(TaskOf("A"), TaskOf("B")))}
    \cup {Scenario("all", cs, <<>>,
                   Task_all([i \in 1 .. Len(cs) |-> TaskOf(cs[i])])) :
             cs \in Sublists(<<"A", "B", "C">>, MaxItems)}
    \cup {Scenario("sequence", cs, <<>>,
                   Task_sequence([i \in 1 .. Len(cs) |-> TaskOf(cs[i])])) :
             cs \in Sublists(<<"B", "A">>, MaxItems)}

TaskEitherScenarios ==
    UNION {
        {Scenario("createTaskEither", <<c>>, <<>>, TaskEitherOf(c)),
         Scenario("teMap", <<c>>, <<>>,
                  TaskEither_map(TaskEitherOf(c), Fn("inc", 1, <<>>))),
         Scenario("mapLeft", <<c>>, <<>>,
                  TaskEither_mapLeft(TaskEitherOf(c), Fn("wrap", 1, <<>>))),
         Scenario("teFlatMap", <<c>>, <<"RB">>,
                  TaskEither_flatMap(TaskEitherOf(c), Fn("teRB", 1, <<>>))),
         Scenario("teTap", <<c>>, <<>>,
                  TaskEither_tap(TaskEitherOf(c), Fn("effect", 1, <<>>))),
         Scenario("tapLeft", <<c>>, <<>>,
                  TaskEither_tapLeft(TaskEitherOf(c), Fn("effect", 1, <<>>))),
         Scenario("match", <<c>>, <<>>,
                  TaskEither_match(TaskEitherOf(c), Fn("zero", 1, <<>>),
                                   Fn("inc", 1, <<>>))),
         Scenario("getOrElse", <<c>>, <<>>,
                  TaskEither_getOrElse(TaskEitherOf(c), Fn("zero", 1, <<>>))),
         Scenario("orElse", <<c>>, <<"RB">>,
                  TaskEither_orElse(TaskEitherOf(c), Fn("teRB", 1, <<>>))),
         Scenario("orElse", <<c>>, <<"LB">>,
                  TaskEither_orElse(TaskEitherOf(c), Fn("teLB", 1, <<>>)))} :
        c \in {"RA", "LA"}}
    \cup {Scenario("teFlatten", <<"RT">>, <<"RB">>,
                   TaskEither_flatten(TaskEitherOf("RT"))),
          Scenario("taskEither", <<>>, <<>>, taskEither(Num(0))),
          Scenario("taskLeft", <<>>, <<>>, taskLeft("e1"))}
    \cup {Scenario("teAp", <<f, a>>, <<>>,
                   TaskEither_ap(TaskEitherOf(f), TaskEitherOf(a))) :
             f \in {"RF", "LA"}, a \in {"RA", "LB"}}
    \cup {Scenario("teZip", cs, <<>>,
                   TaskEither_zip(TaskEitherOf(cs[1]), TaskEitherOf(cs[2]))) :
             cs \in {<<"RA", "RB">>, <<"LA", "RB">>, <<"RA", "LB">>,
                     <<"LA", "LB">>}}
    \cup {Scenario("teAll", cs, <<>>,
                   TaskEither_all([i \in 1 .. Len(cs) |-> TaskEitherOf(cs[i])])) :
             cs \in Sublists(<<"LA", "RA", "LB", "RB">>, MaxItems)}

\* traverse(items, x => fromPromise(the callable of item x)): the items are
\* the numbers of the callables in <<"A", "B", "C">>.
ItemOf(c) == Num(CHOOSE k \in 1 .. 3 : <<"A", "B", "C">>[k] = c)

TraverseBuilds ==
    {LET r == Task_traverse([i \in 1 .. Len(cs) |-> ItemOf(cs[i])],
                            Fn("taskFor", 1, <<>>))
     IN [log |-> r.log, v |-> Scenario("traverse", cs, <<>>, r.v)] :
        cs \in Sublists(<<"C", "A">>, MaxItems)}

TaskProgs == TaskScenarios \cup {b.v : b \in TraverseBuilds}

NoProg == Scenario("none", <<>>, <<>>, task(Undefined))

\* A program that compares two tasks: it runs task and other in turn.
Law(op, cs, ks, lhs, rhs) ==
    [cs |-> cs, ks |-> ks, op |-> op, other |-> rhs, task |-> lhs]

\* The callables of the tasks a mapper gives.
CallablesOf(mapper) ==
    CASE mapper.fn = "taskJ" -> <<"J">>
      [] mapper.fn = "teRJ" -> <<"RJ">>
      [] OTHER -> <<>>

\* The tasks t and mappers f, g the laws are checked for.
TaskSubjects ==
    {[cs |-> <<>>, task |-> task(Num(1))],
     [cs |-> <<"K">>, task |-> TaskOf("K")]}

TaskMappers ==
    {Fn("taskInc", 1, <<>>), Fn("taskDbl", 1, <<>>), Fn("taskJ", 1, <<>>)}

TaskEitherSubjects ==
    {[cs |-> <<>>, task |-> taskEither(Num(1))],
     [cs |-> <<>>, task |-> taskLeft("e1")],
     [cs |-> <<"RK">>, task |-> TaskEitherOf("RK")],
     [cs |-> <<"LA">>, task |-> TaskEitherOf("LA")]}

TaskEitherMappers ==
    {Fn("teInc", 1, <<>>), Fn("teDbl", 1, <<>>), Fn("teFail", 1, <<>>),
     Fn("teRJ", 1, <<>>)}

\* of(a).flatMap(f) and f(a); t.flatMap(of) and t; t.flatMap(f).flatMap(g)
\* and t.flatMap(x => f(x).flatMap(g)).
TaskMonadLaws ==
    {Law("leftIdentity", <<>>, CallablesOf(f),
         Task_flatMap(task(a), f), Apply(f, a).v) :
        a \in {Num(1), Num(2)}, f \in TaskMappers}
    \cup {Law("rightIdentity", t.cs, <<>>,
              Task_flatMap(t.task, Fn("task", 1, <<>>)), t.task) :
             t \in TaskSubjects}
    \cup {Law("associativity", t.cs, CallablesOf(f) \o CallablesOf(g),
              Task_flatMap(Task_flatMap(t.task, f), g),
              Task_flatMap(t.task, Fn("bind", 3, <<f, g>>))) :
             t \in TaskSubjects, f \in TaskMappers, g \in TaskMappers}

TaskEitherMonadLaws ==
    {Law("teLeftIdentity", <<>>, CallablesOf(f),
         TaskEither_flatMap(taskEither(a), f), Apply(f, a).v) :
        a \in {Num(1), Num(2)}, f \in TaskEitherMappers}
    \cup {Law("teRightIdentity", t.cs, <<>>,
              TaskEither_flatMap(t.task, Fn("taskEither", 1, <<>>)), t.task) :
             t \in TaskEitherSubjects}
    \cup {Law("teAssociativity", t.cs, CallablesOf(f) \o CallablesOf(g),
              TaskEither_flatMap(TaskEither_flatMap(t.task, f), g),
              TaskEither_flatMap(t.task, Fn("teBind", 3, <<f, g>>))) :
             t \in TaskEitherSubjects, f \in TaskEitherMappers,
             g \in TaskEitherMappers}

\* x.map(id) and x; x.map(f).map(g) and x.map(v => g(f(v))).
TaskFunctorLaws ==
    {Law("mapIdentity", t.cs, <<>>,
         Task_map(t.task, Fn("id", 1, <<>>)), t.task) :
        t \in TaskSubjects}
    \cup {Law("mapComposition", t.cs, <<>>,
              Task_map(Task_map(t.task, f), g),
              Task_map(t.task, Fn("compose", 3, <<f, g>>))) :
             t \in TaskSubjects, f \in MapFns, g \in MapFns}

TaskEitherFunctorLaws ==
    {Law("teMapIdentity", t.cs, <<>>,
         TaskEither_map(t.task, Fn("id", 1, <<>>)), t.task) :
        t \in TaskEitherSubjects}
    \cup {Law("teMapComposition", t.cs, <<>>,
              TaskEither_map(TaskEither_map(t.task, f), g),
              TaskEither_map(t.task, Fn("compose", 3, <<f, g>>))) :
             t \in TaskEitherSubjects, f \in MapFns, g \in MapFns}

TaskLaws == TaskMonadLaws \cup TaskFunctorLaws

LawProgs ==
    TaskLaws \cup TaskEitherMonadLaws \cup TaskEitherFunctorLaws

St(log, table, run) == [calls |-> log, promises |-> table, run |-> run]

\* Building the task by calling its thunk once.
BuildTask_eager ==
    /\ prog = NoProg
    /\ \E built \in TaskScenarios :
          LET r == Invoke(St(calls, promises, 0), built.task.thunk)
          IN /\ prog' = built
             /\ promises' = r.st.promises
             /\ calls' = r.st.calls
    /\ UNCHANGED <<runs, held, vobs>>

BuildTask ==
    /\ prog = NoProg
    /\ prog' \in TaskScenarios
    /\ UNCHANGED <<promises, calls, runs, held, vobs>>

BuildTraverse ==
    /\ prog = NoProg
    /\ \E b \in TraverseBuilds :
          /\ prog' = b.v
          /\ calls' = calls \o b.log
    /\ UNCHANGED <<promises, runs, held, vobs>>

BuildTaskEither ==
    /\ prog = NoProg
    /\ prog' \in TaskEitherScenarios
    /\ UNCHANGED <<promises, calls, runs, held, vobs>>

BuildLaw ==
    /\ prog = NoProg
    /\ prog' \in LawProgs
    /\ UNCHANGED <<promises, calls, runs, held, vobs>>

Ran(r) ==
    /\ Len(r.st.promises) <= MaxPromises
    /\ promises' = r.st.promises
    /\ calls' = r.st.calls
    /\ runs' = Append(runs, r.p)
    /\ UNCHANGED <<prog, held, vobs>>

RunTask ==
    /\ prog \in TaskProgs
    /\ Len(runs) < MaxRuns
    /\ Ran(Task_run(St(calls, promises, Len(runs) + 1), prog.task))

RunTaskEither ==
    /\ prog \in TaskEitherScenarios
    /\ Len(runs) < MaxRuns
    /\ Ran(TaskEither_run(St(calls, promises, Len(runs) + 1), prog.task))

\* The runs of a program that compares two tasks: run() of task, then of
\* other, and so on in turn.  The program awaits each run before the next
\* (expect(await lhs.run()).toBe(await rhs.run())), so run() is called again
\* only once the runs before have resolved.
RunLaw ==
    /\ prog \in LawProgs
    /\ Len(runs) < MaxRuns
    /\ \A r \in 1 .. Len(runs) : promises[runs[r]].state = "fulfilled"
    /\ LET t == IF Len(runs) % 2 = 0 THEN prog.task ELSE prog.other
           st == St(calls, promises, Len(runs) + 1)
       IN Ran(IF prog \in TaskLaws THEN Task_run(st, t)
              ELSE TaskEither_run(st, t))

Pending(p) == promises[p].state = "pending"
Fulfilled(p) == promises[p].state = "fulfilled"
Rejected(p) == promises[p].state = "rejected"

\* The reason the promise returned by a call of callable c rejects with.
Failure(c) == [reason |-> c]

\* How many of the callables' promises of run r the environment has settled.
SettledIn(r) ==
    Cardinality({q \in 1 .. Len(promises) :
        promises[q].kind = "callable" /\ promises[q].run = r /\ ~Pending(q)})

\* The environment: the promise a callable returned resolves.
Settle(p) ==
    /\ promises[p].kind = "callable"
    /\ Pending(p)
    /\ promises' = [promises EXCEPT ![p].at = SettledIn(promises[p].run) + 1,
                                    ![p].state = "fulfilled",
                                    ![p].value = Outcome(promises[p].c, promises[p].n)]
    /\ UNCHANGED <<prog, calls, runs, held, vobs>>

\* The environment: the promise a callable returned rejects.
Reject(p) ==
    /\ promises[p].kind = "callable"
    /\ Pending(p)
    /\ promises' = [promises EXCEPT ![p].at = SettledIn(promises[p].run) + 1,
                                    ![p].state = "rejected",
                                    ![p].value = Failure(promises[p].c)]
    /\ UNCHANGED <<prog, calls, runs, held, vobs>>

\* The reaction of a then: its callback runs with the value of the promise it
\* waited for; the then's promise resolves with what the callback returned,
\* or adopts the promise it returned.
Fire(p) ==
    /\ promises[p].kind = "then"
    /\ Pending(p)
    /\ promises[p].inner = 0
    /\ Fulfilled(promises[p].srcs[1])
    /\ LET st == St(calls, promises, promises[p].run)
           x == promises[promises[p].srcs[1]].value
           r == IF promises[p].cb.kind \in TaskCallbacks
                THEN Task_callback(st, promises[p].cb, x)
                ELSE TaskEither_callback(st, promises[p].cb, x)
       IN /\ promises' =
                IF r.adopt = 0
                THEN [r.st.promises EXCEPT ![p].state = "fulfilled",
                                           ![p].value = r.value]
                ELSE [r.st.promises EXCEPT ![p].inner = r.adopt]
          /\ calls' = r.st.calls
    /\ UNCHANGED <<prog, runs, held, vobs>>

\* A promise that adopted another resolves as it does.
Follow(p) ==
    /\ promises[p].kind = "then"
    /\ Pending(p)
    /\ promises[p].inner # 0
    /\ Fulfilled(promises[p].inner)
    /\ promises' = [promises EXCEPT ![p].state = "fulfilled",
                                    ![p].value = promises[promises[p].inner].value]
    /\ UNCHANGED <<prog, calls, runs, held, vobs>>

\* Promise.all giving the values of callables' promises in the order they
\* settled.
Join_completionOrder(p) ==
    /\ promises[p].kind = "all"
    /\ Pending(p)
    /\ \A i \in 1 .. Len(promises[p].srcs) : Fulfilled(promises[p].srcs[i])
    /\ LET srcs == promises[p].srcs
           ranked == \A i \in 1 .. Len(srcs) : promises[srcs[i]].at # 0
           byRank == [k \in 1 .. Len(srcs) |->
                        promises[CHOOSE q \in {srcs[i] : i \in 1 .. Len(srcs)} :
                            Cardinality({j \in 1 .. Len(srcs) :
                                promises[srcs[j]].at < promises[q].at}) = k - 1].value]
           inOrder == [i \in 1 .. Len(srcs) |-> promises[srcs[i]].value]
       IN promises' = [promises EXCEPT ![p].state = "fulfilled",
                          ![p].value = Arr(IF ranked THEN byRank ELSE inOrder)]
    /\ UNCHANGED <<prog, calls, runs, held, vobs>>

\* Promise.all resolves once all its promises have, with their values in the
\* order of the array.
Join(p) ==
    /\ promises[p].kind = "all"
    /\ Pending(p)
    /\ \A i \in 1 .. Len(promises[p].srcs) : Fulfilled(promises[p].srcs[i])
    /\ promises' = [promises EXCEPT ![p].state = "fulfilled",
                        ![p].value = Arr([i \in 1 .. Len(promises[p].srcs) |->
                                             promises[promises[p].srcs[i]].value])]
    /\ UNCHANGED <<prog, calls, runs, held, vobs>>

\* A run whose last then catches the rejection and resolves to left of the
\* reason.
Propagate_caught(p) ==
    /\ Pending(p)
    /\ \E q \in 1 .. Len(promises) :
          /\ Rejected(q)
          /\ \/ /\ promises[p].kind = "then"
                /\ promises[p].inner = 0
                /\ q = promises[p].srcs[1]
             \/ /\ promises[p].kind = "then"
                /\ promises[p].inner = q
             \/ /\ promises[p].kind = "all"
                /\ \E i \in 1 .. Len(promises[p].srcs) : promises[p].srcs[i] = q
          /\ promises' =
                IF p = runs[promises[p].run]
                THEN [promises EXCEPT ![p].state = "fulfilled",
                                      ![p].value = left(promises[q].value.reason)]
                ELSE [promises EXCEPT ![p].state = "rejected",
                                      ![p].value = promises[q].value]
    /\ UNCHANGED <<prog, calls, runs, held, vobs>>

\* No then of the library has a rejection handler: a then rejects as the
\* promise it waited for or adopted does, and Promise.all as one of its
\* promises that rejected.
Propagate(p) ==
    /\ Pending(p)
    /\ \E q \in 1 .. Len(promises) :
          /\ Rejected(q)
          /\ \/ /\ promises[p].kind = "then"
                /\ promises[p].inner = 0
                /\ q = promises[p].srcs[1]
             \/ /\ promises[p].kind = "then"
                /\ promises[p].inner = q
             \/ /\ promises[p].kind = "all"
                /\ \E i \in 1 .. Len(promises[p].srcs) : promises[p].srcs[i] = q
          /\ promises' = [promises EXCEPT ![p].state = "rejected",
                                          ![p].value = promises[q].value]
    /\ UNCHANGED <<prog, calls, runs, held, vobs>>

Init ==
    /\ held = valid(Num(0))
    /\ vobs = [f |-> NoFn, in |-> <<>>, log |-> <<>>, op |-> "init",
               out |-> valid(Num(0)), same |-> FALSE]
    /\ prog = NoProg
    /\ promises = <<>>
    /\ calls = <<>>
    /\ runs = <<>>

Next ==
    \/ BuildTask
    \/ BuildTraverse
    \/ BuildTaskEither
    \/ RunTask
    \/ RunTaskEither
    \/ BuildLaw
    \/ RunLaw
    \/ \E p \in 1 .. Len(promises) : Settle(p)
    \/ \E p \in 1 .. Len(promises) : Reject(p)
    \/ \E p \in 1 .. Len(promises) : Fire(p)
    \/ \E p \in 1 .. Len(promises) : Follow(p)
    \/ \E p \in 1 .. Len(promises) : Join(p)
    \/ \E p \in 1 .. Len(promises) : Propagate(p)

Spec == Init /\ [][Next]_vars

SpecV == Init /\ [][VNext]_vars

\* A program that is either the Validation program or the Task program.
NextAll ==
    \/ prog = NoProg /\ VNext
    \/ vobs.op = "init" /\ Next

SpecAll == Init /\ [][NextAll]_vars

----------------------------------------------------------------------------
(* Properties of Validation, checked under SpecV *)

ErrorsOf(v) == IF isValid(v) THEN <<>> ELSE v.invalid

RECURSIVE ConcatErrors(_)
ConcatErrors(vs) ==
    IF vs = <<>> THEN <<>> ELSE ErrorsOf(Head(vs)) \o ConcatErrors(Tail(vs))

AllValid(vs) == \A i \in 1 .. Len(vs) : isValid(vs[i])

PayloadsOf(vs) == [i \in 1 .. Len(vs) |-> vs[i].valid]

\* C1: Validation.ap with both operands invalid gives invalid with the
\* receiver's errors followed by the argument's errors, nothing dropped,
\* duplicated or reordered.
C1_ApAccumulates ==
    (vobs.op = "ap" /\ ~isValid(vobs.in[1]) /\ ~isValid(vobs.in[2]))
        => vobs.out = [invalid |-> vobs.in[1].invalid \o vobs.in[2].invalid]

C1_Witness ==
    /\ vobs.op = "ap"
    /\ ~isValid(vobs.in[1])
    /\ ~isValid(vobs.in[2])
    /\ Len(vobs.in[1].invalid) >= 2
    /\ vobs.in[1].invalid \o vobs.in[2].invalid
          # vobs.in[2].invalid \o vobs.in[1].invalid
    /\ vobs.out = [invalid |-> vobs.in[1].invalid \o vobs.in[2].invalid]

\* C2: Validation.ap with at most one operand invalid: both valid gives
\* valid(fn(arg)) with fn applied exactly once; only the receiver invalid
\* gives exactly the receiver's errors; only the argument invalid gives
\* exactly the argument's errors; fn is not applied in the invalid cases.
C2_ApOneInvalid ==
    vobs.op = "ap" =>
        LET fv == vobs.in[1]
            av == vobs.in[2]
        IN /\ (isValid(fv) /\ isValid(av)) =>
                  /\ vobs.out =
                        [valid |-> Call(fv.valid.fn, Append(fv.valid.args, av.valid))]
                  /\ vobs.log =
                        <<CallEvent(fv.valid.fn, Append(fv.valid.args, av.valid))>>
           /\ (~isValid(fv) /\ isValid(av)) =>
                  /\ vobs.out = [invalid |-> fv.invalid]
                  /\ vobs.log = <<>>
           /\ (isValid(fv) /\ ~isValid(av)) =>
                  /\ vobs.out = [invalid |-> av.invalid]
                  /\ vobs.log = <<>>

C2_Witness ==
    /\ vobs.op = "ap"
    /\ isValid(vobs.in[1])
    /\ ~isValid(vobs.in[2])
    /\ Len(vobs.in[2].invalid) >= 2
    /\ vobs.out = vobs.in[2]
    /\ vobs.log = <<>>

\* C3: no Validation the program can obtain from the constructors by map, ap,
\* tap, map2, map3, traverse and sequence is invalid with no error.
C3_InvalidNonEmpty ==
    /\ isValid(held) \/ Len(held.invalid) >= 1
    /\ isValid(vobs.out) \/ Len(vobs.out.invalid) >= 1
    /\ \A i \in 1 .. Len(vobs.in) :
          "invalid" \in DOMAIN vobs.in[i] => Len(vobs.in[i].invalid) >= 1

C3_Witness ==
    /\ vobs.op = "traverse"
    /\ Len(vobs.in) >= 2
    /\ ~isValid(held)
    /\ Len(held.invalid) = Len(vobs.in)

\* C4: traverse (and sequence) calls f once on every item, in input order,
\* also after an invalid item; the result is valid with the values in item
\* order iff every item gave valid, and otherwise invalid with the invalid
\* items' error sequences concatenated in item order.
C4_TraverseAccumulates ==
    vobs.op \in {"traverse", "sequence"} =>
        LET f == IF vobs.op = "sequence" THEN "identity" ELSE vobs.f.fn
            rs == [i \in 1 .. Len(vobs.in) |-> ApplyV(f, vobs.in[i]).v]
        IN /\ vobs.log = [i \in 1 .. Len(vobs.in) |-> CallEvent(f, <<vobs.in[i]>>)]
           /\ isValid(vobs.out) <=> AllValid(rs)
           /\ AllValid(rs) => vobs.out = [valid |-> Arr(PayloadsOf(rs))]
           /\ ~AllValid(rs) => vobs.out = [invalid |-> ConcatErrors(rs)]

C4_Witness ==
    /\ vobs.op = "sequence"
    /\ Len(vobs.in) = 2
    /\ ~isValid(vobs.in[1])
    /\ ~isValid(vobs.in[2])
    /\ Len(vobs.in[1].invalid) >= 2
    /\ vobs.in[1].invalid \o vobs.in[2].invalid
          # vobs.in[2].invalid \o vobs.in[1].invalid
    /\ vobs.out = [invalid |-> vobs.in[1].invalid \o vobs.in[2].invalid]
    /\ Len(vobs.log) = 2

\* C5: map2 and map3 give valid(mapper(values...)) with mapper called exactly
\* once when every input is valid, and otherwise invalid with the errors of
\* all the invalid inputs in operand order, mapper not called.
C5_MapNAccumulates ==
    vobs.op \in {"map2", "map3"} =>
        /\ AllValid(vobs.in) =>
              /\ vobs.out = [valid |-> Call(vobs.f.fn, PayloadsOf(vobs.in))]
              /\ vobs.log = <<CallEvent(vobs.f.fn, PayloadsOf(vobs.in))>>
        /\ ~AllValid(vobs.in) =>
              /\ vobs.out = [invalid |-> ConcatErrors(vobs.in)]
              /\ vobs.log = <<>>

C5_Witness ==
    /\ vobs.op = "map3"
    /\ ~isValid(vobs.in[1])
    /\ isValid(vobs.in[2])
    /\ ~isValid(vobs.in[3])
    /\ vobs.in[1] # vobs.in[3]
    /\ vobs.out = [invalid |-> vobs.in[1].invalid \o vobs.in[3].invalid]
    /\ vobs.log = <<>>

----------------------------------------------------------------------------
(* Properties of Task and TaskEither, checked under Spec *)

RunIds == 1 .. Len(runs)

Callables ==
    {"A", "B", "C", "F", "T", "RA", "RB", "LA", "LB", "RF", "RT", "K", "J",
     "RK", "RJ"}

\* The promises the callable c returned in run r.
BaseOf(c, r) ==
    {p \in 1 .. Len(promises) :
        promises[p].kind = "callable" /\ promises[p].c = c /\ promises[p].run = r}

Invoked(c, r) == BaseOf(c, r) # {}
Resolved(c, r) == \E p \in BaseOf(c, r) : Fulfilled(p)
ValueOf(c, r) == promises[CHOOSE p \in BaseOf(c, r) : TRUE].value

\* C6: after k calls of run() on a task, overlapping or not, every callable
\* the task wraps has been invoked exactly k times, once in every run; each
\* run returns a promise of its own, which resolves with the outcome of the
\* invocation made in that run and not with an earlier run's.
C6_RunNotMemoized ==
    /\ \A i \in 1 .. Len(prog.cs) :
          /\ CountCalls(calls, prog.cs[i]) = Len(runs)
          /\ \A r \in RunIds :
                /\ Cardinality(BaseOf(prog.cs[i], r)) = 1
                /\ \A p \in BaseOf(prog.cs[i], r) :
                      /\ promises[p].n = r
                      /\ Fulfilled(p) =>
                            promises[p].value = Outcome(prog.cs[i], r)
    /\ \A r1, r2 \in RunIds : r1 # r2 => runs[r1] # runs[r2]
    /\ \A r \in RunIds :
          /\ promises[runs[r]].run = r
          /\ prog.op \in {"fromPromise", "createTaskEither"} =>
                runs[r] \in BaseOf(prog.cs[1], r)
          /\ (prog.op = "map" /\ Fulfilled(runs[r])) =>
                promises[runs[r]].value = Call("inc", <<Outcome("A", r)>>)

C6_Witness ==
    /\ prog.op = "fromPromise"
    /\ Len(runs) = 2
    /\ CountCalls(calls, "A") = 2
    /\ Pending(runs[1])
    /\ Fulfilled(runs[2])
    /\ promises[runs[2]].value = Outcome("A", 2)
    /\ Outcome("A", 2) # Outcome("A", 1)

\* C7: building a task from callables with the constructors and any chain of
\* combinators invokes no callable and creates no promise; as long as run()
\* has not been called, nothing has been invoked.
C7_Lazy ==
    Len(runs) = 0 =>
        /\ promises = <<>>
        /\ \A i \in 1 .. Len(calls) : calls[i].f \notin Callables

C7_Witness ==
    /\ prog.op = "zip"
    /\ prog.cs = <<"A", "B">>
    /\ Len(runs) = 0
    /\ calls = <<>>

\* C8: in every run of t.flatMap(f), Task or TaskEither, the callable of the
\* task f returned is invoked only after t's callable has been invoked and
\* has resolved.
C8_FlatMapSequential ==
    prog.op \in {"flatMap", "teFlatMap"} =>
        \A r \in RunIds : \A i \in 1 .. Len(prog.ks) :
            Invoked(prog.ks[i], r) =>
                (Invoked(prog.cs[1], r) /\ Resolved(prog.cs[1], r))

C8_Witness ==
    /\ prog.op = "teFlatMap"
    /\ Len(runs) = 2
    /\ Invoked(prog.ks[1], 2)
    /\ Resolved(prog.cs[1], 2)
    /\ ~Resolved(prog.cs[1], 1)
    /\ ~Invoked(prog.ks[1], 1)

\* C9: in every run of fn.ap(arg) or a.zip(b), Task or TaskEither, both
\* operands' callables have been invoked before either has resolved, the run
\* resolves only after both have resolved, and zip resolves with the pair
\* (self value, other value).
C9_ApZipConcurrent ==
    prog.op \in {"ap", "zip", "teAp", "teZip"} =>
        \A r \in RunIds :
            /\ (Resolved(prog.cs[1], r) \/ Resolved(prog.cs[2], r)) =>
                  (Invoked(prog.cs[1], r) /\ Invoked(prog.cs[2], r))
            /\ Fulfilled(runs[r]) =>
                  (Resolved(prog.cs[1], r) /\ Resolved(prog.cs[2], r))
            /\ (prog.op = "zip" /\ Fulfilled(runs[r])) =>
                  promises[runs[r]].value =
                      Arr(<<ValueOf(prog.cs[1], r), ValueOf(prog.cs[2], r)>>)
            /\ (prog.op = "teZip" /\ Fulfilled(runs[r])
                    /\ isRight(ValueOf(prog.cs[1], r))
                    /\ isRight(ValueOf(prog.cs[2], r))) =>
                  promises[runs[r]].value =
                      right(Arr(<<ValueOf(prog.cs[1], r).right,
                                  ValueOf(prog.cs[2], r).right>>))

C9_Witness ==
    /\ prog.op = "zip"
    /\ Len(runs) = 2
    /\ Fulfilled(runs[1])
    /\ promises[runs[1]].value = Arr(<<Num(1), Num(11)>>)
    /\ Resolved("B", 2)
    /\ Invoked("A", 2)
    /\ ~Resolved("A", 2)
    /\ Pending(runs[2])

\* C10: in every run of all(list) (Task all and sequence, TaskEither all),
\* the callable of every element has been invoked before any element's
\* callable has resolved.
C10_AllStartsAll ==
    prog.op \in {"all", "sequence", "teAll"} =>
        \A r \in RunIds :
            (\E i \in 1 .. Len(prog.cs) : Resolved(prog.cs[i], r)) =>
                (\A j \in 1 .. Len(prog.cs) : Invoked(prog.cs[j], r))

C10_Witness ==
    /\ prog.op = "all"
    /\ Len(prog.cs) = 2
    /\ Len(runs) = 1
    /\ Resolved(prog.cs[2], 1)
    /\ Invoked(prog.cs[1], 1)
    /\ ~Resolved(prog.cs[1], 1)

\* C11: a run of Task all, traverse or sequence resolves only once every
\* task's callable has resolved, and the i-th element of its result is the
\* value of the i-th input task, whatever the order they resolved in.
C11_AllInputOrder ==
    prog.op \in {"all", "sequence", "traverse"} =>
        \A r \in RunIds :
            Fulfilled(runs[r]) =>
                /\ \A i \in 1 .. Len(prog.cs) : Resolved(prog.cs[i], r)
                /\ promises[runs[r]].value =
                      Arr([i \in 1 .. Len(prog.cs) |-> ValueOf(prog.cs[i], r)])

\* The rank of callable c's promise of run r among the settled ones.
RankOf(c, r) == promises[CHOOSE p \in BaseOf(c, r) : TRUE].at

C11_Witness ==
    /\ prog.op = "traverse"
    /\ prog.cs = <<"C", "A">>
    /\ Len(runs) >= 1
    /\ Fulfilled(runs[1])
    /\ RankOf("A", 1) = 1
    /\ RankOf("C", 1) = 2
    /\ promises[runs[1]].value = Arr(<<Outcome("C", 1), Outcome("A", 1)>>)

\* The indices of the elements of the list whose callable resolved to a left
\* in run r.
LeftsIn(r) ==
    {i \in 1 .. Len(prog.cs) :
        Resolved(prog.cs[i], r) /\ ~isRight(ValueOf(prog.cs[i], r))}

FirstLeftIn(r) == CHOOSE i \in LeftsIn(r) : \A j \in LeftsIn(r) : i <= j

\* C12: a run of TaskEither all(list) resolves only after every element has
\* resolved; to right of the values in input order when every outcome is
\* right, and otherwise to the left of the lowest-index element that resolved
\* to left, whatever the order the elements resolved in.
C12_AllFirstLeftByIndex ==
    prog.op = "teAll" =>
        \A r \in RunIds :
            Fulfilled(runs[r]) =>
                /\ \A i \in 1 .. Len(prog.cs) : Resolved(prog.cs[i], r)
                /\ LeftsIn(r) = {} =>
                      promises[runs[r]].value =
                          right(Arr([i \in 1 .. Len(prog.cs) |->
                                        ValueOf(prog.cs[i], r).right]))
                /\ LeftsIn(r) # {} =>
                      promises[runs[r]].value =
                          left(ValueOf(prog.cs[FirstLeftIn(r)], r).left)

C12_Witness ==
    /\ prog.op = "teAll"
    /\ prog.cs = <<"LA", "LB">>
    /\ Len(runs) >= 1
    /\ Fulfilled(runs[1])
    /\ RankOf("LB", 1) = 1
    /\ RankOf("LA", 1) = 2
    /\ promises[runs[1]].value = left("e1")

\* The promise p can settle by a reaction of the host: Fire, Follow, Join or
\* Propagate is enabled for it.
Reacting(p) ==
    /\ Pending(p)
    /\ \/ /\ promises[p].kind = "then"
          /\ promises[p].inner = 0
          /\ ~Pending(promises[p].srcs[1])
       \/ /\ promises[p].kind = "then"
          /\ promises[p].inner # 0
          /\ ~Pending(promises[p].inner)
       \/ /\ promises[p].kind = "all"
          /\ \/ \A i \in 1 .. Len(promises[p].srcs) :
                   Fulfilled(promises[p].srcs[i])
             \/ \E i \in 1 .. Len(promises[p].srcs) :
                   Rejected(promises[p].srcs[i])

\* No reaction of the host is waiting to run: every then, adoption and
\* Promise.all that could settle has settled.
HostIdle == \A p \in 1 .. Len(promises) : ~Reacting(p)

\* C13: TaskEither all short-circuits on the first left: once some element
\* of the list has resolved to left, and the host has run every reaction that
\* was waiting, the run of all(list) has resolved with a left, whether or not
\* the remaining elements have resolved.
C13_AllShortCircuits ==
    prog.op = "teAll" =>
        \A r \in RunIds :
            (LeftsIn(r) # {} /\ HostIdle) =>
                (Fulfilled(runs[r]) /\ ~isRight(promises[runs[r]].value))

\* How many times the function f has been called with the arguments args.
CallsWith(f, args) ==
    Cardinality({i \in 1 .. Len(calls) : calls[i] = CallEvent(f, args)})

\* The callback of the then that run r returned has run.
Fired(r) == promises[runs[r]].inner # 0 \/ Fulfilled(runs[r])

\* C14: in a run of te.flatMap(mapper), if te resolves to left(e) the run
\* resolves to left(e), mapper is not invoked for it and no callable of a
\* second TaskEither is invoked; if te resolves to right(v), mapper is invoked
\* exactly once, with v, and the run resolves to the outcome of running
\* mapper(v).  te.map(mapper) does not invoke mapper on left and resolves to
\* right(mapper(v)) on right.
C14_FlatMapShortCircuit ==
    prog.op \in {"teFlatMap", "teMap"} =>
        LET c == prog.cs[1]
            mapper == IF prog.op = "teFlatMap" THEN "teRB" ELSE "inc"
            rights == {r \in RunIds : Resolved(c, r) /\ isRight(ValueOf(c, r))}
        IN /\ CountCalls(calls, mapper) =
                 Cardinality({r \in rights : Fired(r)})
           /\ \A r \in RunIds :
                 /\ (Resolved(c, r) /\ ~isRight(ValueOf(c, r))) =>
                       /\ \A i \in 1 .. Len(prog.ks) : ~Invoked(prog.ks[i], r)
                       /\ Fulfilled(runs[r]) =>
                             promises[runs[r]].value = left(ValueOf(c, r).left)
                       /\ HostIdle => Fulfilled(runs[r])
                 /\ r \in rights =>
                       LET v == ValueOf(c, r).right
                       IN /\ CallsWith(mapper, <<v>>) = IF Fired(r) THEN 1 ELSE 0
                          /\ HostIdle => Fired(r)
                          /\ (prog.op = "teFlatMap" /\ Fulfilled(runs[r])) =>
                                /\ Resolved("RB", r)
                                /\ promises[runs[r]].value = ValueOf("RB", r)
                          /\ (prog.op = "teFlatMap" /\ HostIdle
                                  /\ Resolved("RB", r)) => Fulfilled(runs[r])
                          /\ (prog.op = "teMap" /\ HostIdle) =>
                                /\ Fulfilled(runs[r])
                                /\ promises[runs[r]].value =
                                      right(Call("inc", <<v>>))

C14_Witness ==
    /\ prog.op = "teFlatMap"
    /\ prog.cs = <<"LA">>
    /\ Len(runs) = 2
    /\ Fulfilled(runs[1])
    /\ promises[runs[1]].value = left("e1")
    /\ CountCalls(calls, "teRB") = 0
    /\ ~Invoked("RB", 1)
    /\ HostIdle

\* C15: a run of fn.ap(arg) on TaskEither resolves to left(e1) alone when
\* the receiver resolves to left(e1) and the argument to left(e2), whichever
\* resolved first; to the one left when exactly one side is left; and to
\* right(fn(a)) when both are right.
C15_ApFirstErrorWins ==
    prog.op = "teAp" =>
        \A r \in RunIds :
            LET fnE == ValueOf(prog.cs[1], r)
                argE == ValueOf(prog.cs[2], r)
                both == Resolved(prog.cs[1], r) /\ Resolved(prog.cs[2], r)
            IN /\ Fulfilled(runs[r]) =>
                     /\ both
                     /\ promises[runs[r]].value =
                           IF ~isRight(fnE) THEN left(fnE.left)
                           ELSE IF ~isRight(argE) THEN left(argE.left)
                           ELSE right(Call("add2", <<Num(r), argE.right>>))
               /\ (both /\ HostIdle) => Fulfilled(runs[r])

C15_Witness ==
    /\ prog.op = "teAp"
    /\ prog.cs = <<"LA", "LB">>
    /\ Len(runs) >= 1
    /\ RankOf("LB", 1) = 1
    /\ RankOf("LA", 1) = 2
    /\ Fulfilled(runs[1])
    /\ promises[runs[1]].value = left("e1")

\* C16: in a run of te.orElse(fallback), if te resolves to right(v) the run
\* resolves to right(v), and fallback is not called nor the callable of its
\* TaskEither invoked for it; if te resolves to left(e), fallback is called
\* exactly once, with e and only after te has resolved, and the run resolves
\* to the outcome, right or left, of running the TaskEither it returned.
C16_OrElse ==
    prog.op = "orElse" =>
        LET c == prog.cs[1]
            k == prog.ks[1]
            fallback == IF k = "RB" THEN "teRB" ELSE "teLB"
            lefts == {r \in RunIds : Resolved(c, r) /\ ~isRight(ValueOf(c, r))}
        IN /\ CountCalls(calls, fallback) =
                 Cardinality({r \in lefts : Fired(r)})
           /\ \A i \in 1 .. Len(calls) :
                 calls[i].f = fallback =>
                     \E r \in lefts : calls[i].args = <<ValueOf(c, r).left>>
           /\ \A r \in RunIds :
                 /\ Invoked(k, r) => r \in lefts
                 /\ (Resolved(c, r) /\ isRight(ValueOf(c, r))) =>
                       /\ Fulfilled(runs[r]) =>
                             promises[runs[r]].value = right(ValueOf(c, r).right)
                       /\ HostIdle => Fulfilled(runs[r])
                 /\ r \in lefts =>
                       /\ HostIdle => (Fired(r) /\ Invoked(k, r))
                       /\ Fulfilled(runs[r]) =>
                             /\ Resolved(k, r)
                             /\ promises[runs[r]].value = ValueOf(k, r)
                       /\ (HostIdle /\ Resolved(k, r)) => Fulfilled(runs[r])

C16_Witness ==
    /\ prog.op = "orElse"
    /\ prog.cs = <<"LA">>
    /\ prog.ks = <<"LB">>
    /\ Len(runs) = 1
    /\ CallsWith("teLB", <<"e1">>) = 1
    /\ Fulfilled(runs[1])
    /\ promises[runs[1]].value = left("e2")

\* The promises of callables of run r that rejected.
RejectedIn(r) ==
    {p \in 1 .. Len(promises) :
        promises[p].kind = "callable" /\ promises[p].run = r /\ Rejected(p)}

\* The runs in which no callable of the task itself (prog.cs) rejected.
SoundRuns ==
    {r \in RunIds :
        \A p \in RejectedIn(r) :
            \A i \in 1 .. Len(prog.cs) : promises[p].c # prog.cs[i]}

\* The calls of user functions made by runs: mappers, side effects, fallbacks.
RunCalls ==
    {i \in 1 .. Len(calls) : calls[i].f \notin Callables \cup {"taskFor"}}

\* C17: when the promise of a callable rejects, the run() of the task, and of
\* every task derived from it by a combinator or all, rejects with that
\* reason once the host has reacted: the run never resolves, to a left or to
\* a value, and no mapper, side effect or fallback is called for it.  A run
\* rejects only if a callable did.
C17_RejectionPropagates ==
    /\ \A r \in RunIds :
          /\ RejectedIn(r) # {} =>
                /\ ~Fulfilled(runs[r])
                /\ HostIdle => Rejected(runs[r])
          /\ Rejected(runs[r]) =>
                \E p \in RejectedIn(r) :
                    promises[runs[r]].value = Failure(promises[p].c)
          /\ r \notin SoundRuns => ~Fired(r)
    /\ prog \notin LawProgs =>
          Cardinality(RunCalls) <= Cardinality(SoundRuns)

C17_Witness ==
    /\ prog.op = "orElse"
    /\ prog.cs = <<"LA">>
    /\ Len(runs) = 2
    /\ Rejected(runs[1])
    /\ promises[runs[1]].value = Failure("LA")
    /\ Fulfilled(runs[2])
    /\ CountCalls(calls, "teRB") = 1
    /\ HostIdle

\* The side effect of tap (Task), tap or tapLeft (TaskEither) is for a run
\* whose callable resolved to x.
EffectFor(x) ==
    \/ prog.op = "tap"
    \/ prog.op = "teTap" /\ isRight(x)
    \/ prog.op = "tapLeft" /\ ~isRight(x)

\* C18: a run of task.tap(effect) calls effect exactly once, with the value
\* the task resolved to, and resolves to that value whatever effect returned;
\* a run of te.tap(effect) calls effect only when te resolved to right, a run
\* of te.tapLeft(effect) only when te resolved to left, and both resolve to
\* exactly the Either te resolved to.
C18_TapKeepsOutcome ==
    prog.op \in {"tap", "teTap", "tapLeft"} =>
        LET c == prog.cs[1]
            affected == {r \in RunIds :
                            Resolved(c, r) /\ EffectFor(ValueOf(c, r))}
        IN /\ CountCalls(calls, "effect") =
                 Cardinality({r \in affected : Fired(r)})
           /\ \A i \in 1 .. Len(calls) :
                 calls[i].f = "effect" =>
                     \E r \in affected :
                         LET x == ValueOf(c, r)
                         IN calls[i].args =
                                <<IF prog.op = "tap" THEN x
                                  ELSE IF isRight(x) THEN x.right ELSE x.left>>
           /\ \A r \in RunIds :
                 Resolved(c, r) =>
                     /\ HostIdle => Fulfilled(runs[r])
                     /\ Fulfilled(runs[r]) =>
                           promises[runs[r]].value = Outcome(c, r)

C18_Witness ==
    /\ prog.op = "tapLeft"
    /\ prog.cs = <<"LA">>
    /\ Len(runs) = 1
    /\ CallsWith("effect", <<"e1">>) = 1
    /\ Fulfilled(runs[1])
    /\ promises[runs[1]].value = left("e1")
    /\ Call("effect", <<"e1">>) # left("e1")

\* C19: map and tap on an invalid Validation v return v itself, the same
\* object, and do not invoke the function they were given; tap on a valid v
\* invokes the side effect once, with the value, and returns v itself.
C19_MapTapReturnReceiver ==
    /\ (vobs.op = "map" /\ ~isValid(vobs.in[1])) =>
          /\ vobs.same
          /\ vobs.out = vobs.in[1]
          /\ vobs.log = <<>>
    /\ (vobs.op = "tap" /\ ~isValid(vobs.in[1])) =>
          /\ vobs.same
          /\ vobs.out = vobs.in[1]
          /\ vobs.log = <<>>
    /\ (vobs.op = "tap" /\ isValid(vobs.in[1])) =>
          /\ vobs.same
          /\ vobs.out = vobs.in[1]
          /\ vobs.log = <<CallEvent("effect", <<vobs.in[1].valid>>)>>

C19_Witness ==
    /\ vobs.op = "map"
    /\ ~isValid(vobs.in[1])
    /\ Len(vobs.in[1].invalid) = 2
    /\ vobs.same
    /\ vobs.out = vobs.in[1]
    /\ vobs.log = <<>>

\* C20: on an empty input, Validation traverse and sequence return valid of
\* the empty sequence without invoking f; a run of Task all, traverse and
\* sequence resolves to the empty sequence; a run of TaskEither all resolves
\* to right of the empty sequence.
C20_EmptyInput ==
    /\ (vobs.op \in {"traverse", "sequence"} /\ vobs.in = <<>>) =>
          /\ vobs.out = valid(Arr(<<>>))
          /\ vobs.log = <<>>
    /\ (prog.op \in {"all", "traverse", "sequence"} /\ prog.cs = <<>>) =>
          /\ calls = <<>>
          /\ \A r \in RunIds :
                /\ Fulfilled(runs[r])
                /\ promises[runs[r]].value = Arr(<<>>)
    /\ (prog.op = "teAll" /\ prog.cs = <<>>) =>
          /\ calls = <<>>
          /\ \A r \in RunIds :
                /\ ~Rejected(runs[r])
                /\ HostIdle => Fulfilled(runs[r])
                /\ Fulfilled(runs[r]) =>
                      promises[runs[r]].value = right(Arr(<<>>))

C20_Witness ==
    /\ prog.op = "teAll"
    /\ prog.cs = <<>>
    /\ Len(runs) = 2
    /\ Fulfilled(runs[1])
    /\ promises[runs[1]].value = right(Arr(<<>>))
    /\ Pending(runs[2])

\* C21: fromEither(right(v)) is valid(v) and fromEither(left(e)) is invalid
\* with the one-element error sequence <<e>>: the tag is kept and the payload
\* is the same value.
C21_FromEither ==
    vobs.op = "fromEither" =>
        LET either == vobs.in[1]
        IN /\ isRight(either) =>
                 (isValid(vobs.out) /\ vobs.out = [valid |-> either.right])
           /\ ~isRight(either) =>
                 (~isValid(vobs.out) /\ vobs.out = [invalid |-> <<either.left>>])
           /\ vobs.log = <<>>

C21_Witness ==
    /\ vobs.op = "fromEither"
    /\ vobs.in = <<left("e2")>>
    /\ vobs.out = [invalid |-> <<"e2">>]

\* The runs of the first task (task) and of the second (other) of a program
\* that compares two tasks.
RunsOfTask == {r \in RunIds : r % 2 = 1}
RunsOfOther == {r \in RunIds : r % 2 = 0}

\* Every promise a callable returned in run r has resolved.
AllResolvedIn(r) ==
    \A p \in 1 .. Len(promises) :
        (promises[p].kind = "callable" /\ promises[p].run = r) => Fulfilled(p)

MonadLawOps ==
    {"leftIdentity", "rightIdentity", "associativity",
     "teLeftIdentity", "teRightIdentity", "teAssociativity"}

\* C22: the monad laws of flatMap on Task and TaskEither, by the outcome of
\* run(): of(a).flatMap(f) resolves as f(a), t.flatMap(of) as t, and
\* t.flatMap(f).flatMap(g) as t.flatMap(x => f(x).flatMap(g)); a run of
\* either side resolves once the callables it invoked all have.
C22_MonadLaws ==
    prog.op \in MonadLawOps =>
        /\ \A r1 \in RunsOfTask, r2 \in RunsOfOther :
              (Fulfilled(runs[r1]) /\ Fulfilled(runs[r2])) =>
                  promises[runs[r1]].value = promises[runs[r2]].value
        /\ \A r \in RunIds :
              (HostIdle /\ AllResolvedIn(r)) => Fulfilled(runs[r])

C22_Witness ==
    /\ prog.op = "teAssociativity"
    /\ prog.cs = <<"RK">>
    /\ prog.ks = <<"RJ">>
    /\ Len(runs) = 2
    /\ Fulfilled(runs[1])
    /\ Fulfilled(runs[2])
    /\ promises[runs[1]].value = left("e2")
    /\ promises[runs[2]].value = left("e2")

FunctorLawOps ==
    {"mapIdentity", "mapComposition", "teMapIdentity", "teMapComposition"}

\* C23: the functor laws of map.  On Validation, x.map(id) has the tag and
\* payload of x, and x.map(f).map(g) those of x.map(v => g(f(v))), for valid
\* and invalid x; on Task and TaskEither the runs of the two sides resolve to
\* the same outcome, for right and left, and resolve once their callables
\* have.
C23_FunctorLaws ==
    /\ vobs.op = "mapIdentity" => vobs.out = vobs.in[1]
    /\ vobs.op = "mapComposition" => vobs.out = vobs.other
    /\ prog.op \in FunctorLawOps =>
          /\ \A r1 \in RunsOfTask, r2 \in RunsOfOther :
                (Fulfilled(runs[r1]) /\ Fulfilled(runs[r2])) =>
                    promises[runs[r1]].value = promises[runs[r2]].value
          /\ \A r \in RunIds :
                (HostIdle /\ AllResolvedIn(r)) => Fulfilled(runs[r])

C23_Witness ==
    /\ prog.op = "teMapComposition"
    /\ prog.cs = <<"RK">>
    /\ Len(runs) = 2
    /\ Fulfilled(runs[1])
    /\ Fulfilled(runs[2])
    /\ promises[runs[1]].value = right(Num(6))
    /\ promises[runs[2]].value = right(Num(6))

CompositeOps ==
    {"map", "tap", "ap", "zip", "all", "teMap", "mapLeft", "teTap", "tapLeft",
     "match", "getOrElse", "teAp", "teZip", "teAll"}

\* C24: every run() of a task built by map, tap, mapLeft, tapLeft, match,
\* getOrElse, zip, ap or all invokes the callable of each underlying task
\* exactly once, whatever the operands resolve to; in TaskEither ap, zip and
\* all, the callables of the argument and of later elements are invoked and
\* awaited also when the receiver or an earlier element resolved to left.
C24_OncePerRun ==
    prog.op \in CompositeOps =>
        /\ \A i \in 1 .. Len(prog.cs) :
              /\ CountCalls(calls, prog.cs[i]) = Len(runs)
              /\ \A r \in RunIds : Cardinality(BaseOf(prog.cs[i], r)) = 1
        /\ \A i \in 1 .. Len(calls) :
              calls[i].f \in Callables =>
                  \E j \in 1 .. Len(prog.cs) : calls[i].f = prog.cs[j]
        /\ \A r \in RunIds :
              Fulfilled(runs[r]) =>
                  \A i \in 1 .. Len(prog.cs) : Resolved(prog.cs[i], r)

C24_Witness ==
    /\ prog.op = "teAll"
    /\ prog.cs = <<"LA", "RA">>
    /\ Len(runs) = 1
    /\ RankOf("LA", 1) = 1
    /\ RankOf("RA", 1) = 2
    /\ CountCalls(calls, "RA") = 1
    /\ Fulfilled(runs[1])
    /\ promises[runs[1]].value = left("e1")

\* The items traverse was called with.
ItemsOf(cs) == [i \in 1 .. Len(cs) |-> ItemOf(cs[i])]

\* The calls of traverse's mapper, in the order they were made.
MapperCalls == SelectSeq(calls, LAMBDA e : e.f = "taskFor")

\* C25: Task traverse(items, mapper) calls mapper exactly once per item, in
\* item order (with the item, its index and the items, as items.map does),
\* when traverse is called and before any run(); the tasks mapper
\* gave are not run until run() is called on the result, and k runs invoke
\* each of their callables k times and never call mapper again.
C25_TraverseMapsOnce ==
    prog.op = "traverse" =>
        /\ MapperCalls =
              [i \in 1 .. Len(prog.cs) |->
                  CallEvent("taskFor", <<ItemOf(prog.cs[i]), Num(i - 1),
                                         Arr(ItemsOf(prog.cs))>>)]
        /\ SubSeq(calls, 1, Len(prog.cs)) = MapperCalls
        /\ Len(runs) = 0 => (promises = <<>> /\ calls = MapperCalls)
        /\ \A i \in 1 .. Len(prog.cs) :
              /\ CountCalls(calls, prog.cs[i]) = Len(runs)
              /\ \A r \in RunIds : Cardinality(BaseOf(prog.cs[i], r)) = 1

C25_Witness ==
    /\ prog.op = "traverse"
    /\ prog.cs = <<"C", "A">>
    /\ Len(runs) = 2
    /\ calls = <<CallEvent("taskFor",
                           <<Num(3), Num(0), Arr(<<Num(3), Num(1)>>)>>),
                 CallEvent("taskFor",
                           <<Num(1), Num(1), Arr(<<Num(3), Num(1)>>)>>),
                 CallEvent("C", <<>>), CallEvent("A", <<>>),
                 CallEvent("C", <<>>), CallEvent("A", <<>>)>>

====
